---- MODULE Spec2Model ----
(***************************************************************************)
(* Model of cfw-gha-deploy: the Hono worker of src/index.ts and the        *)
(* GitHub Actions deployment run that the README documents                 *)
(* (actions/checkout, pnpm/action-setup, pnpm add -D wrangler,             *)
(* cloudflare/wrangler-action@v3 running `wrangler deploy`).               *)
(*                                                                         *)
(* A behaviour is one workflow run on a fresh runner followed, when the    *)
(* run has uploaded the worker, by the hosting runtime handing requests to *)
(* the deployed app.                                                       *)
(***************************************************************************)
EXTENDS Naturals, Sequences, FiniteSets

VARIABLES
    workflow,   \* the steps of .github/workflows/deploy.yml and the wrangler it pins
    repo,       \* the files of the repository that the run checks out
    run,        \* the state of the runner during the workflow run
    routes,     \* the routes registered on the Hono app
    requests    \* the requests the hosting runtime has handed to the app

vars == <<workflow, repo, run, routes, requests>>

\* Most requests one behaviour hands to the worker.
MaxRequests == 2

(***************************************************************************)
(* The worker: src/index.ts                                                *)
(***************************************************************************)

Methods == {"GET", "HEAD", "POST"}

Paths == {"/", "/hello"}

\* new Hono(): an app with no route.
Hono == {}

\* app.get(path, handler): the app with one more route for method GET.
app_get(rs, path, handler) ==
    rs \cup {[method |-> "GET", path |-> path, handler |-> handler]}

\* c.text(body): a 200 response with a text/plain content type.
c_text(body) ==
    [status |-> 200, contentType |-> "text/plain", body |-> body]

\* Mutant: the handler answers with another text.
helloHandlerOtherBody ==
    [threw |-> FALSE, res |-> c_text("Hello Hono!")]

\* Mutant: the handler throws.
helloHandlerThrows ==
    [threw |-> TRUE, res |-> c_text("Hello Hono! x gha deploy")]

\* The arrow function registered for GET /: it returns c.text(...) and
\* throws nothing.
helloHandler ==
    [threw |-> FALSE, res |-> c_text("Hello Hono! x gha deploy")]

\* The handler bodies of the module, by name.
RunHandler(h) ==
    CASE h = "hello" -> helloHandler

\* The default export: the app after the module body has run.
app == app_get(Hono, "/", "hello")

\* Mutant: the router ignores the method.
RouteMatchesAnyMethod(r, method, path) ==
    r.path = path

\* Hono's router: a route matches its own method (or ALL) and, in strict
\* mode, exactly its own path.
RouteMatches(r, method, path) ==
    /\ r.method = method \/ r.method = "ALL"
    /\ r.path = path

\* Hono's default notFound handler.
notFoundHandler ==
    [status |-> 404, contentType |-> "text/plain", body |-> "404 Not Found"]

\* Hono's default onError handler.
errorHandler ==
    [status |-> 500, contentType |-> "text/plain", body |-> "Internal Server Error"]

\* Hono's dispatch for a method other than HEAD: run the matching handler,
\* fall back to notFound when no route matches, to onError when it throws.
\* invoked lists the handlers that ran.
dispatch(rs, method, path) ==
    LET matched == {r \in rs : RouteMatches(r, method, path)}
    IN  IF matched = {}
        THEN [res |-> notFoundHandler, invoked |-> {}, threw |-> FALSE]
        ELSE LET r == CHOOSE x \in matched : TRUE
                 out == RunHandler(r.handler)
             IN  IF out.threw
                 THEN [res |-> errorHandler, invoked |-> {r.handler}, threw |-> TRUE]
                 ELSE [res |-> out.res, invoked |-> {r.handler}, threw |-> FALSE]

\* app.fetch: Hono answers HEAD by dispatching the request as GET and
\* building the response again with a null body (status and headers kept).
fetch(rs, method, path) ==
    IF method = "HEAD"
    THEN LET d == dispatch(rs, "GET", path)
         IN  [d EXCEPT !.res = [d.res EXCEPT !.body = ""]]
    ELSE dispatch(rs, method, path)

(***************************************************************************)
(* The Deployment Descriptor: wrangler.json / wrangler.toml                *)
(***************************************************************************)

NoVersion == <<>>

\* The Wrangler that cloudflare/wrangler-action@v3 installs by default.
DefaultWranglerVersion == <<3, 90, 0>>

\* The first Wrangler that reads wrangler.json / wrangler.jsonc.
JsonSupportSince == <<3, 91, 0>>

\* The Wrangler 4.x that `wrangler@latest` names in the README's log.
LatestWranglerVersion == <<4, 55, 0>>

\* The versions a workflow's "Install Wrangler" step may pin.
WranglerVersions ==
    {<<3, 89, 0>>, DefaultWranglerVersion, JsonSupportSince, LatestWranglerVersion}

\* a >= b on <<major, minor, patch>>.
VersionGE(a, b) ==
    \/ a[1] > b[1]
    \/ a[1] = b[1] /\ a[2] > b[2]
    \/ a[1] = b[1] /\ a[2] = b[2] /\ a[3] >= b[3]

\* Mutant: every version looks for the JSON forms too.
ConfigNamesAnyVersion(version) ==
    {"wrangler.json", "wrangler.jsonc", "wrangler.toml"}

\* Mutant: JSON support replaced wrangler.toml instead of joining it.
ConfigNamesJsonReplacesToml(version) ==
    IF VersionGE(version, JsonSupportSince)
    THEN {"wrangler.json", "wrangler.jsonc"}
    ELSE {"wrangler.toml"}

\* Wrangler 3.90.0 and earlier read only wrangler.toml; 3.91.0+ and 4.x read
\* wrangler.json, wrangler.jsonc and wrangler.toml.
ConfigNames(version) ==
    IF VersionGE(version, JsonSupportSince)
    THEN {"wrangler.json", "wrangler.jsonc", "wrangler.toml"}
    ELSE {"wrangler.toml"}

\* The field values a descriptor may carry.
Descriptors ==
    [name : {"my-worker", "cfw-gha-deploy"},
     main : {"src/index.ts", "src/worker.ts"},
     compatibility_date : {"2025-12-10"}]

Syntaxes == {"json", "toml"}

\* The descriptor written out: wrangler.json holds "key": "value" members,
\* wrangler.toml holds key = "value" lines.
Serialize(d, syntax) ==
    LET sep == IF syntax = "json" THEN ":" ELSE "="
    IN  [path |-> IF syntax = "json" THEN "wrangler.json" ELSE "wrangler.toml",
         text |-> << [key |-> "name", sep |-> sep, value |-> d.name],
                     [key |-> "main", sep |-> sep, value |-> d.main],
                     [key |-> "compatibility_date", sep |-> sep,
                      value |-> d.compatibility_date] >>]

\* The value of `key` in a parsed text, "" when the key is absent.
Field(text, key) ==
    LET at == {i \in 1..Len(text) : text[i].key = key}
    IN  IF at = {} THEN ""
        ELSE text[CHOOSE i \in at : \A j \in at : j <= i].value

EmptyConfig ==
    [ok |-> TRUE, name |-> "", main |-> "", compatibility_date |-> ""]

\* A config file read in the syntax its name calls for; a file written in
\* the other syntax does not parse.
ParseConfig(file) ==
    LET sep == IF file.path = "wrangler.toml" THEN "=" ELSE ":"
    IN  IF \E i \in 1..Len(file.text) : file.text[i].sep # sep
        THEN [EmptyConfig EXCEPT !.ok = FALSE]
        ELSE [ok |-> TRUE,
              name |-> Field(file.text, "name"),
              main |-> Field(file.text, "main"),
              compatibility_date |-> Field(file.text, "compatibility_date")]

\* Wrangler's configuration: the config file this version looks for, parsed;
\* the empty configuration when the workspace holds none it knows.
ReadConfig(version, files) ==
    LET found == {f \in files : f.path \in ConfigNames(version)}
    IN  IF found = {} THEN EmptyConfig
        ELSE ParseConfig(CHOOSE f \in found : TRUE)

\* Whether the entry point names a module of the project.
EntryFileExists(main, files) ==
    \E f \in files : f.path = main

\* The files of the repository: the worker, package.json and one config file.
RepoFiles(d, syntax) ==
    {[path |-> "src/index.ts", text |-> <<>>],
     [path |-> "package.json", text |-> <<>>],
     Serialize(d, syntax)}

(***************************************************************************)
(* The workflow run                                                        *)
(***************************************************************************)

Step(kind, version) == [kind |-> kind, version |-> version]

\* The steps of the workflow in the documented order; the pnpm step and the
\* Wrangler step are the ones a workflow may leave out.
WorkflowSteps(withPnpm, wrangler) ==
    <<Step("checkout", NoVersion)>>
    \o (IF withPnpm THEN <<Step("pnpm", NoVersion)>> ELSE <<>>)
    \o (IF wrangler # NoVersion THEN <<Step("wrangler", wrangler)>> ELSE <<>>)
    \o <<Step("deploy", NoVersion)>>

Workflows ==
    {WorkflowSteps(p, w) : p \in BOOLEAN, w \in {NoVersion} \cup WranglerVersions}

\* A fresh GitHub runner: no pnpm, no Wrangler, an empty workspace.
FreshRun ==
    [ip |-> 1, phase |-> "none", status |-> "running", error |-> "",
     workspace |-> {}, pnpm |-> FALSE, wrangler |-> NoVersion,
     config |-> EmptyConfig, entry |-> "", bundle |-> "", uploaded |-> FALSE,
     log |-> <<>>]

\* A failed step fails the job: no later step runs.
Fail(r, err) ==
    [r EXCEPT !.status = "failed", !.error = err]

\* The step is over: on to the next one, or the job has succeeded.
StepDone(wf, r) ==
    [r EXCEPT !.ip = @ + 1, !.phase = "none",
              !.status = IF r.ip + 1 > Len(wf) THEN "succeeded" ELSE "running"]

\* actions/checkout@v4
checkout(wf, files, r) ==
    StepDone(wf, [r EXCEPT !.workspace = files])

\* pnpm/action-setup@v4
setupPnpm(wf, r) ==
    StepDone(wf, [r EXCEPT !.pnpm = TRUE])

\* run: pnpm add -D wrangler@<version>
addWrangler(wf, r) ==
    IF ~r.pnpm
    THEN Fail(r, "pnpm: command not found")
    ELSE StepDone(wf, [r EXCEPT !.wrangler = wf[r.ip].version])

\* Mutant: the action installs its default whatever is installed.
actionCheckIgnoresExisting(r) ==
    [r EXCEPT !.log = Append(@, "Checking for existing Wrangler installation"),
              !.phase = "install"]

\* wrangler-action: "Checking for existing Wrangler installation".
actionCheck(r) ==
    [r EXCEPT !.log = Append(@, "Checking for existing Wrangler installation"),
              !.phase = IF r.wrangler # NoVersion THEN "config" ELSE "install"]

\* Mutant: the install does not need the package manager.
actionInstallWithoutPnpm(r) ==
    [r EXCEPT !.wrangler = DefaultWranglerVersion,
              !.log = Append(Append(@, "Installing Wrangler"), "Wrangler installed"),
              !.phase = "config"]

\* wrangler-action: "Installing Wrangler", with the project's package manager.
actionInstall(r) ==
    LET r1 == [r EXCEPT !.log = Append(@, "Installing Wrangler")]
    IN  IF ~r.pnpm
        THEN Fail(r1, "Unable to locate executable file: pnpm")
        ELSE [r1 EXCEPT !.wrangler = DefaultWranglerVersion,
                        !.log = Append(@, "Wrangler installed"),
                        !.phase = "config"]

\* wrangler-action: "Running Wrangler Commands": wrangler deploy reads its
\* configuration.
wranglerReadConfig(r) ==
    LET r1 == [r EXCEPT !.log = Append(@, "Running Wrangler Commands")]
        c == ReadConfig(r.wrangler, r.workspace)
    IN  IF ~c.ok
        THEN Fail(r1, "config parse error")
        ELSE [r1 EXCEPT !.config = c, !.phase = "entry"]

\* Mutant: the entry point is taken without looking for its file.
wranglerEntryUnchecked(r) ==
    IF r.config.main = ""
    THEN Fail(r, "Missing entry-point")
    ELSE [r EXCEPT !.entry = r.config.main, !.phase = "bundle"]

\* wrangler deploy resolves the entry point from the `main` config field.
wranglerEntry(r) ==
    IF r.config.main = ""
    THEN Fail(r, "Missing entry-point")
    ELSE IF ~EntryFileExists(r.config.main, r.workspace)
    THEN Fail(r, "entry-point file not found")
    ELSE [r EXCEPT !.entry = r.config.main, !.phase = "bundle"]

\* wrangler deploy bundles the entry module.
wranglerBundle(r) ==
    [r EXCEPT !.bundle = r.entry, !.phase = "upload"]

\* wrangler deploy uploads the bundle to the hosting platform (the
\* CLOUDFLARE_API_TOKEN and CLOUDFLARE_ACCOUNT_ID secrets are taken as set).
wranglerUpload(wf, r) ==
    StepDone(wf, [r EXCEPT !.uploaded = TRUE])

\* cloudflare/wrangler-action@v3, one phase at a time.
deployStep(wf, r) ==
    CASE r.phase = "none"    -> actionCheck(r)
      [] r.phase = "install" -> actionInstall(r)
      [] r.phase = "config"  -> wranglerReadConfig(r)
      [] r.phase = "entry"   -> wranglerEntry(r)
      [] r.phase = "bundle"  -> wranglerBundle(r)
      [] r.phase = "upload"  -> wranglerUpload(wf, r)

\* One move of a running job.
RunStep(wf, files, r) ==
    CASE wf[r.ip].kind = "checkout" -> checkout(wf, files, r)
      [] wf[r.ip].kind = "pnpm"     -> setupPnpm(wf, r)
      [] wf[r.ip].kind = "wrangler" -> addWrangler(wf, r)
      [] wf[r.ip].kind = "deploy"   -> deployStep(wf, r)

\* The job run to its end.
RECURSIVE RunToEnd(_, _, _)
RunToEnd(wf, files, r) ==
    IF r.status # "running" THEN r ELSE RunToEnd(wf, files, RunStep(wf, files, r))

(***************************************************************************)
(* The state machine                                                       *)
(***************************************************************************)

Init ==
    /\ workflow \in Workflows
    /\ \E d \in Descriptors, s \in Syntaxes : repo = RepoFiles(d, s)
    /\ run = FreshRun
    /\ routes = app
    /\ requests = <<>>

Running(kind) ==
    /\ run.status = "running"
    /\ workflow[run.ip].kind = kind

Checkout ==
    /\ Running("checkout")
    /\ run' = checkout(workflow, repo, run)
    /\ UNCHANGED <<workflow, repo, routes, requests>>

SetupPnpm ==
    /\ Running("pnpm")
    /\ run' = setupPnpm(workflow, run)
    /\ UNCHANGED <<workflow, repo, routes, requests>>

AddWrangler ==
    /\ Running("wrangler")
    /\ run' = addWrangler(workflow, run)
    /\ UNCHANGED <<workflow, repo, routes, requests>>

ActionCheck ==
    /\ Running("deploy") /\ run.phase = "none"
    /\ run' = actionCheck(run)
    /\ UNCHANGED <<workflow, repo, routes, requests>>

ActionInstall ==
    /\ Running("deploy") /\ run.phase = "install"
    /\ run' = actionInstall(run)
    /\ UNCHANGED <<workflow, repo, routes, requests>>

WranglerReadConfig ==
    /\ Running("deploy") /\ run.phase = "config"
    /\ run' = wranglerReadConfig(run)
    /\ UNCHANGED <<workflow, repo, routes, requests>>

WranglerEntry ==
    /\ Running("deploy") /\ run.phase = "entry"
    /\ run' = wranglerEntry(run)
    /\ UNCHANGED <<workflow, repo, routes, requests>>

WranglerBundle ==
    /\ Running("deploy") /\ run.phase = "bundle"
    /\ run' = wranglerBundle(run)
    /\ UNCHANGED <<workflow, repo, routes, requests>>

WranglerUpload ==
    /\ Running("deploy") /\ run.phase = "upload"
    /\ run' = wranglerUpload(workflow, run)
    /\ UNCHANGED <<workflow, repo, routes, requests>>

\* The hosting runtime hands a request to the deployed worker.
Receive(method, path) ==
    /\ run.uploaded
    /\ Len(requests) < MaxRequests
    /\ requests' = Append(requests,
           [method |-> method, path |-> path, state |-> "pending",
            responses |-> <<>>, invoked |-> {}, threw |-> FALSE])
    /\ UNCHANGED <<workflow, repo, run, routes>>

\* Mutant: the handler's route is dropped once a request has been answered.
RespondUnregisters(i) ==
    /\ requests[i].state = "pending"
    /\ LET d == fetch(routes, requests[i].method, requests[i].path)
       IN  requests' = [requests EXCEPT ![i] =
               [@ EXCEPT !.state = "done",
                         !.responses = Append(@, d.res),
                         !.invoked = d.invoked,
                         !.threw = d.threw]]
    /\ routes' = {}
    /\ UNCHANGED <<workflow, repo, run>>

\* Mutant: the answer depends on whether another request is in flight.
RespondShared(i) ==
    /\ requests[i].state = "pending"
    /\ LET busy == \E j \in 1..Len(requests) : j # i /\ requests[j].state = "pending"
           d == IF busy THEN fetch({}, requests[i].method, requests[i].path)
                ELSE fetch(routes, requests[i].method, requests[i].path)
       IN  requests' = [requests EXCEPT ![i] =
               [@ EXCEPT !.state = "done",
                         !.responses = Append(@, d.res),
                         !.invoked = d.invoked,
                         !.threw = d.threw]]
    /\ UNCHANGED <<workflow, repo, run, routes>>

\* One invocation of app.fetch answers request i.
Respond(i) ==
    /\ requests[i].state = "pending"
    /\ LET d == fetch(routes, requests[i].method, requests[i].path)
       IN  requests' = [requests EXCEPT ![i] =
               [@ EXCEPT !.state = "done",
                         !.responses = Append(@, d.res),
                         !.invoked = d.invoked,
                         !.threw = d.threw]]
    /\ UNCHANGED <<workflow, repo, run, routes>>

Next ==
    \/ Checkout
    \/ SetupPnpm
    \/ AddWrangler
    \/ ActionCheck
    \/ ActionInstall
    \/ WranglerReadConfig
    \/ WranglerEntry
    \/ WranglerBundle
    \/ WranglerUpload
    \/ \E m \in Methods, p \in Paths : Receive(m, p)
    \/ \E i \in 1..Len(requests) : Respond(i)

Spec == Init /\ [][Next]_vars

\* The hosting runtime runs every invocation it has started to its end.
FairSpec == Spec /\ WF_vars(\E i \in 1..Len(requests) : Respond(i))

(***************************************************************************)
(* Properties of the worker                                                *)
(***************************************************************************)

SuccessResponse ==
    [status |-> 200, contentType |-> "text/plain", body |-> "Hello Hono! x gha deploy"]

Answered(i) == requests[i].state = "done"

IsGetRoot(i) == requests[i].method = "GET" /\ requests[i].path = "/"

\* C1: every answered GET / request got status 200, a text/plain content
\* type and the body 'Hello Hono! x gha deploy'.
C1_GetRootSucceeds ==
    \A i \in 1..Len(requests) :
        Answered(i) /\ IsGetRoot(i) =>
            /\ Len(requests[i].responses) = 1
            /\ requests[i].responses[1].status = 200
            /\ requests[i].responses[1].contentType = "text/plain"
            /\ requests[i].responses[1].body = "Hello Hono! x gha deploy"

C1_Witness ==
    \E i \in 1..Len(requests) :
        Answered(i) /\ IsGetRoot(i) /\ requests[i].responses = <<SuccessResponse>>

\* The framework's answer when no route matches: 404 Not Found, sent
\* without a body to a HEAD request.
DefaultResponse(method) ==
    IF method = "HEAD" THEN [notFoundHandler EXCEPT !.body = ""] ELSE notFoundHandler

\* C2 as stated: for every (method, path) other than (GET, '/') the
\* registered handler is not invoked and the response is the framework
\* default, never the success response.
C2_OnlyGetRootMatches ==
    \A i \in 1..Len(requests) :
        Answered(i) /\ ~IsGetRoot(i) =>
            /\ requests[i].invoked = {}
            /\ requests[i].responses = <<DefaultResponse(requests[i].method)>>
            /\ requests[i].responses[1] # SuccessResponse

\* C2 as amended: the registered handler runs exactly for GET / and HEAD /
\* (HEAD is dispatched as GET and answered 200 without a body); every other
\* (method, path) gets the framework's 404 with no handler invoked; and only
\* GET / gets the success response.
C2_OnlyRootGetOrHeadMatches ==
    \A i \in 1..Len(requests) :
        Answered(i) =>
            /\ requests[i].invoked # {} <=>
                   requests[i].path = "/" /\ requests[i].method \in {"GET", "HEAD"}
            /\ requests[i].invoked = {} =>
                   requests[i].responses = <<DefaultResponse(requests[i].method)>>
            /\ requests[i].method = "HEAD" /\ requests[i].path = "/" =>
                   requests[i].responses = <<[SuccessResponse EXCEPT !.body = ""]>>
            /\ requests[i].responses[1] = SuccessResponse => IsGetRoot(i)

C2_Witness ==
    \E i, j \in 1..Len(requests) :
        /\ Answered(i) /\ requests[i].method = "POST" /\ requests[i].path = "/"
        /\ requests[i].responses = <<notFoundHandler>>
        /\ Answered(j) /\ requests[j].method = "HEAD" /\ requests[j].path = "/"
        /\ requests[j].invoked = {"hello"}

SameInput(i, j) ==
    requests[i].method = requests[j].method /\ requests[i].path = requests[j].path

\* C3: requests with the same (method, path) get identical responses, and
\* no step changes the registered routes or the response the app gives to
\* any later request.
C3_IdempotentNoSideEffects ==
    /\ [](\A i, j \in 1..Len(requests) :
            Answered(i) /\ Answered(j) /\ SameInput(i, j) =>
                requests[i].responses = requests[j].responses)
    /\ [][/\ routes' = routes
          /\ \A m \in Methods, p \in Paths :
                fetch(routes', m, p) = fetch(routes, m, p)]_vars

C3_Witness ==
    \E i, j \in 1..Len(requests) :
        i # j /\ Answered(i) /\ Answered(j) /\ SameInput(i, j) /\ routes = app

\* C4: a GET / request never ends in an error outcome: the handler throws
\* nothing, the response is no error response, it is the success response.
C4_GetRootTotal ==
    \A i \in 1..Len(requests) :
        Answered(i) /\ IsGetRoot(i) =>
            /\ ~requests[i].threw
            /\ requests[i].responses # <<errorHandler>>
            /\ \A k \in 1..Len(requests[i].responses) :
                   requests[i].responses[k].status < 400
            /\ requests[i].responses = <<SuccessResponse>>

C4_Witness ==
    \E i \in 1..Len(requests) :
        Answered(i) /\ IsGetRoot(i) /\ ~requests[i].threw /\ requests[i].invoked = {"hello"}

\* C10: whatever the interleaving, a request has no response while pending
\* and exactly one once answered, the response is the one the app gives to
\* that (method, path) on its own, the routes are never written, and every
\* pending request is answered.
C10_OneIndependentResponse ==
    /\ [](\A i \in 1..Len(requests) :
            /\ Len(requests[i].responses) = (IF Answered(i) THEN 1 ELSE 0)
            /\ Answered(i) =>
                   requests[i].responses[1] =
                       fetch(app, requests[i].method, requests[i].path).res)
    /\ [][routes' = routes]_vars
    /\ \A i \in 1..MaxRequests :
           (i <= Len(requests) /\ ~Answered(i)) ~> (i <= Len(requests) /\ Answered(i))

\* Two requests in flight together, the later one answered first.
C10_Witness ==
    /\ Len(requests) >= 2
    /\ ~Answered(1) /\ Answered(2)
    /\ requests[1].method # requests[2].method

(***************************************************************************)
(* Properties of the deployment run                                        *)
(***************************************************************************)

\* The repository's config file and the field values it carries.
RepoConfigFile ==
    CHOOSE f \in repo : f.path \in {"wrangler.json", "wrangler.toml"}

RepoSyntax == IF RepoConfigFile.path = "wrangler.json" THEN "json" ELSE "toml"

RepoDescriptor ==
    [name |-> Field(RepoConfigFile.text, "name"),
     main |-> Field(RepoConfigFile.text, "main"),
     compatibility_date |-> Field(RepoConfigFile.text, "compatibility_date")]

\* The descriptor's entry point names a module of the repository.
RepoEntryResolves == \E f \in repo : f.path = RepoDescriptor.main

Finished == run.status # "running"

Logged(line) == \E k \in 1..Len(run.log) : run.log[k] = line

HasStep(kind) == \E k \in 1..Len(workflow) : workflow[k].kind = kind

\* C5: a run whose descriptor names an entry point that does not resolve
\* never bundles or uploads, fails at entry resolution, and no request
\* reaches the worker from it; bundling and upload are reached only with the
\* descriptor's entry point resolved to a module of the workspace.
C5_NoUploadWithoutEntry ==
    /\ ~RepoEntryResolves =>
           /\ ~run.uploaded /\ run.bundle = "" /\ run.phase \notin {"bundle", "upload"}
           /\ requests = <<>>
           /\ run.status # "succeeded"
           /\ run.phase = "entry" /\ Finished =>
                  /\ run.status = "failed"
                  /\ run.error \in {"Missing entry-point", "entry-point file not found"}
    /\ run.error \in {"Missing entry-point", "entry-point file not found"} =>
           run.status = "failed" /\ ~run.uploaded /\ run.bundle = "" /\ requests = <<>>
    /\ run.phase \in {"bundle", "upload"} \/ run.uploaded =>
           /\ run.entry # "" /\ run.entry = RepoDescriptor.main
           /\ EntryFileExists(run.entry, run.workspace)
    /\ requests # <<>> => run.uploaded

C5_Witness ==
    /\ ~RepoEntryResolves
    /\ run.status = "failed" /\ run.phase = "entry"
    /\ run.error = "entry-point file not found"
    /\ ~run.uploaded

\* The workflow in the documented order with Wrangler 4.x, on the project
\* as the README lays it out: wrangler.json naming src/index.ts.
DocumentedSetup ==
    /\ \E v \in WranglerVersions : v[1] = 4 /\ workflow = WorkflowSteps(TRUE, v)
    /\ RepoSyntax = "json"
    /\ RepoEntryResolves

\* C6: in the documented setup the action finds the installed Wrangler 4.x
\* and runs it, never installs 3.90.0, and the run ends deployed.
C6_PreinstalledWranglerUsed ==
    DocumentedSetup =>
        /\ run.wrangler # DefaultWranglerVersion
        /\ ~Logged("Installing Wrangler")
        /\ Logged("Checking for existing Wrangler installation") =>
               run.wrangler = workflow[3].version /\ run.wrangler[1] = 4
        /\ run.status # "failed"
        /\ Finished => run.status = "succeeded" /\ run.uploaded /\ run.entry = "src/index.ts"
        /\ RunToEnd(workflow, repo, run).uploaded

C6_Witness ==
    /\ DocumentedSetup
    /\ run.status = "succeeded" /\ run.uploaded
    /\ run.wrangler = LatestWranglerVersion
    /\ run.log = <<"Checking for existing Wrangler installation",
                   "Running Wrangler Commands">>

\* pnpm is set up and no Wrangler is installed before the action.
NoWranglerStep == workflow = WorkflowSteps(TRUE, NoVersion)

\* The run has read its configuration.
ConfigRead == run.phase \in {"entry", "bundle", "upload"} \/ run.uploaded

\* C7: with pnpm but no Wrangler step the action installs Wrangler 3.90.0,
\* which looks for wrangler.toml only; a wrangler.json project then fails
\* with 'Missing entry-point' and nothing is deployed; a run with Wrangler
\* 3.91.0 or later reads the same wrangler.json and finds the entry point.
C7_DefaultWranglerMissesJson ==
    /\ NoWranglerStep =>
           /\ run.wrangler \in {NoVersion, DefaultWranglerVersion}
           /\ Logged("Wrangler installed") => run.wrangler = DefaultWranglerVersion
           /\ ConfigNames(DefaultWranglerVersion) = {"wrangler.toml"}
    /\ NoWranglerStep /\ RepoSyntax = "json" =>
           /\ ~run.uploaded /\ run.bundle = "" /\ requests = <<>>
           /\ Finished => run.status = "failed" /\ run.error = "Missing entry-point"
    /\ /\ RepoSyntax = "json" /\ ConfigRead
       /\ run.wrangler # NoVersion /\ VersionGE(run.wrangler, JsonSupportSince)
       => /\ run.config.main = RepoDescriptor.main
          /\ run.error # "Missing entry-point"
          /\ RepoEntryResolves /\ Finished => run.uploaded /\ run.entry = RepoDescriptor.main

C7_Witness ==
    /\ NoWranglerStep /\ RepoSyntax = "json"
    /\ run.wrangler = DefaultWranglerVersion
    /\ run.status = "failed" /\ run.error = "Missing entry-point"
    /\ Logged("Running Wrangler Commands")

\* C8: when the workflow has no pnpm step, no Wrangler command ever runs and
\* nothing is deployed; the action, once it runs, fails while installing
\* Wrangler with 'Unable to locate executable file: pnpm'.
C8_MissingPnpmFailsInstall ==
    ~HasStep("pnpm") =>
        /\ ~Logged("Running Wrangler Commands") /\ ~Logged("Wrangler installed")
        /\ ~run.uploaded /\ requests = <<>> /\ run.status # "succeeded"
        /\ run.log # <<>> /\ Finished =>
               /\ run.status = "failed"
               /\ run.error = "Unable to locate executable file: pnpm"
               /\ run.log = <<"Checking for existing Wrangler installation",
                              "Installing Wrangler">>
        /\ workflow = WorkflowSteps(FALSE, NoVersion) /\ Finished => run.log # <<>>

C8_Witness ==
    /\ workflow = WorkflowSteps(FALSE, NoVersion)
    /\ run.status = "failed" /\ run.phase = "install"
    /\ run.error = "Unable to locate executable file: pnpm"

\* What a finished run comes to.
Outcome(r) ==
    [status |-> r.status, error |-> r.error, entry |-> r.entry, uploaded |-> r.uploaded]

\* The same workflow run on the repository with its descriptor written in
\* the other serialization, field values kept.
TwinRun ==
    RunToEnd(workflow,
             RepoFiles(RepoDescriptor, IF RepoSyntax = "json" THEN "toml" ELSE "json"),
             FreshRun)

\* C9 as stated: a finished run and the run given the other serialization of
\* the same descriptor resolve the same entry point and end the same way.
C9_SerializationsInterchangeable ==
    Finished => Outcome(run) = Outcome(TwinRun)

\* C9 as amended: the two serializations are interchangeable for runs whose
\* Wrangler is 3.91.0 or later; a run whose Wrangler is 3.90.0 or earlier
\* reads only the wrangler.toml form and fails on the wrangler.json form
\* with 'Missing entry-point'.
C9_InterchangeableSinceJsonSupport ==
    /\ Finished /\ run.wrangler # NoVersion /\ VersionGE(run.wrangler, JsonSupportSince) =>
           /\ Outcome(run) = Outcome(TwinRun)
           /\ run.config = TwinRun.config
    /\ Finished /\ run.wrangler # NoVersion /\ ~VersionGE(run.wrangler, JsonSupportSince) =>
           /\ RepoSyntax = "json" =>
                  run.status = "failed" /\ run.error = "Missing entry-point"
           /\ RepoSyntax = "toml" => run.config.main = RepoDescriptor.main

C9_Witness ==
    /\ Finished /\ RepoSyntax = "json"
    /\ run.wrangler = JsonSupportSince
    /\ run.uploaded /\ TwinRun.uploaded
    /\ run.entry = TwinRun.entry

====
